---------------------------- MODULE Spec2Model ----------------------------
(***************************************************************************)
(* MyTrail backend: route-candidate construction and geometric             *)
(* optimisation.                                                           *)
(*                                                                         *)
(*   GeomSpec : the geometry kernel of two_opt_optimizer.py applied to     *)
(*              every tuple of points of an integer grid                   *)
(*   OptSpec  : optimize_waypoint_order_by_two_opt, one action per         *)
(*              iteration of its while loop, applied twice in a row        *)
(*   OptLive  : OptSpec with weak fairness of the loop                     *)
(*   Spec     : RouteService.generate_routes (sampling, assembling,        *)
(*              ranking, response building)                                *)
(*   AsmSpec  : the same run on larger candidate pools and fewer attempts  *)
(*   RankSpec : RouteRankingService.rank_routes applied to lists of route  *)
(*              references, scores finite or infinite                      *)
(*                                                                         *)
(* Coordinates are integers: on integers abs(val) < 1e-12 is val = 0 and   *)
(* the 1e-12 slack of _on_segment adds no point.                           *)
(***************************************************************************)
EXTENDS Integers, Sequences, FiniteSets, TLC

\* ------------------------------------------------------------------ bounds
GridMax == 2
MaxLen == 4
\* attempts of one run (max_routes, 20 by default in the code)
MaxRoutes == 6

Coords == 0..GridMax
GridPoints == Coords \X Coords

\* --------------------------------------------------------------- variables
VARIABLES
    gpc,        \* geometry kernel: "args" before the call, then the function called
    gArgs,      \* geometry kernel: the four points p1, p2, p3, p4
    gRet,       \* geometry kernel: the value returned
    opc,        \* optimizer: "call", "loop", "returned"
    ncall,      \* optimizer: 1 for optimize(w), 2 for optimize(optimize(w))
    original,   \* optimizer: the w of the first call
    waypoints,  \* optimizer: argument of the current call
    optimized,  \* optimizer: working copy (line 18)
    improved,   \* optimizer: loop flag (line 19)
    scans,      \* optimizer: number of scans of the while loop so far, modulo 2
    swaps,      \* optimizer: the (i, j) of the last reversal and the sequence it was found in
    result,     \* optimizer: returned sequence
    firstResult, \* optimizer: what the first call returned
    stage,      \* generate_routes: "Sampling", "Assembling", "Ranking", "Building", "Done", "Failed"
    catalog,    \* map service: the places it returns for each category
    criteria,   \* generate_routes: the RouteCriteria argument
    maxRoutes,  \* generate_candidate_routes: max_routes
    catIdx,     \* generate_candidate_routes: categories visited by the loop of line 100
    pool,       \* generate_candidate_routes: all_waypoint_candidates
    routeIdx,   \* generate_candidate_routes: route_idx of the next attempt
    candidates, \* generate_candidate_routes: candidate_routes
    ranked,     \* generate_routes: the list handed to build_response
    response,   \* generate_routes: <<>>, then <<the RouteResponse returned>>
    searchLog,  \* map service: the find_nearby_places requests received, in order
    dirLog,     \* map service: the get_directions requests received, in order
    rankCalls,  \* number of rank_routes calls
    scorerCalls, \* number of calls of the scoring model
    numWaypoints, \* generate_candidate_routes: num_waypoints of the last attempt (0 outside the loop)
    rpc,        \* rank_routes: "call", then "returned" or "raised"
    rkRoutes,   \* rank_routes: the argument, a list of references to route dicts
    rkHeap,     \* rank_routes: the route dict behind each reference
    rkScores,   \* rank_routes: what the model's predict returned
    rkResult,   \* rank_routes: the list returned
    rkCalls,    \* rank_routes: number of calls of predict_batch / predict
    bpc,        \* build_response: "call", then "returned"
    bInput,     \* build_response: routes_data
    bResponse,  \* build_response: <<>>, then <<the RouteResponse returned>>
    ppc,        \* parser: "call", "dispatch", "llm", "validate", "returned", "raised"
    pQuery,     \* parser: the query argument of parse, a sequence of characters
    pText,      \* parser: preprocessed.normalized_text
    pThreshold, \* parser: the basic_model_word_threshold argument of __init__
    basicCalls, \* parser: the calls of the basic client, each with its text and outcome
    llmCalls,   \* parser: the texts the LLM client was asked to parse, in order
    pRaw,       \* parser: <<>>, then <<the payload _dispatch returned>>
    pValidated, \* parser: the payloads handed to validator.validate, in order
    callCount,  \* api_counter: call_count[today], 0 while the key is absent
    cpc         \* map service: where each client coroutine is: "idle", awaiting the
                \* "nearby", "nearest" or "routes" reply, "returned" or "raised"

geomVars == <<gpc, gArgs, gRet>>
genVars == <<stage, catalog, criteria, maxRoutes, catIdx, pool, routeIdx, candidates,
             ranked, response, searchLog, dirLog, rankCalls, scorerCalls, numWaypoints>>
rankVars == <<rpc, rkRoutes, rkHeap, rkScores, rkResult, rkCalls>>
optVars == <<opc, ncall, original, waypoints, optimized, improved, scans, swaps, result, firstResult>>
buildVars == <<bpc, bInput, bResponse>>
parseVars == <<ppc, pQuery, pText, pThreshold, basicCalls, llmCalls, pRaw, pValidated>>
counterVars == <<callCount, cpc>>
svcVars == <<buildVars, parseVars, counterVars>>
coreVars == <<geomVars, optVars, genVars, rankVars>>

\* ----------------------------------------------------------- small helpers
Abs(n) == IF n < 0 THEN 0 - n ELSE n
Min(a, b) == IF a <= b THEN a ELSE b
Max(a, b) == IF a >= b THEN a ELSE b

\* s[k] of a Python list (0-based)
At(s, k) == s[k + 1]

Reversed(s) == [k \in 1..Len(s) |-> s[Len(s) + 1 - k]]

\* s[lo:hi] of a Python list
Slice(s, lo, hi) == SubSeq(s, lo + 1, hi)

\* ---------------------------------------------------------- GeometryKernel
OrientationNoCollinear(a, b, c) ==
    LET val == (b[2] - a[2]) * (c[1] - b[1]) - (b[1] - a[1]) * (c[2] - b[2])
    IN  IF val > 0 THEN 1 ELSE 2

\* _orientation: 0 collinear, 1 clockwise, 2 counter-clockwise
Orientation(a, b, c) ==
    LET val == (b[2] - a[2]) * (c[1] - b[1]) - (b[1] - a[1]) * (c[2] - b[2])
    IN  IF Abs(val) = 0 THEN 0
        ELSE IF val > 0 THEN 1 ELSE 2

OnSegmentFirstAxisOnly(a, b, c) ==
    Min(a[1], c[1]) <= b[1] /\ b[1] <= Max(a[1], c[1])

\* _on_segment: b lies in the bounding box of a and c
OnSegment(a, b, c) ==
    /\ Min(a[1], c[1]) <= b[1] /\ b[1] <= Max(a[1], c[1])
    /\ Min(a[2], c[2]) <= b[2] /\ b[2] <= Max(a[2], c[2])

\* _segments_intersect
SegmentsIntersect(p1, p2, p3, p4) ==
    LET o1 == Orientation(p1, p2, p3)
        o2 == Orientation(p1, p2, p4)
        o3 == Orientation(p3, p4, p1)
        o4 == Orientation(p3, p4, p2)
    IN  IF o1 # o2 /\ o3 # o4 THEN TRUE
        ELSE IF o1 = 0 /\ OnSegment(p1, p3, p2) THEN TRUE
        ELSE IF o2 = 0 /\ OnSegment(p1, p4, p2) THEN TRUE
        ELSE IF o3 = 0 /\ OnSegment(p3, p1, p4) THEN TRUE
        ELSE IF o4 = 0 /\ OnSegment(p3, p2, p4) THEN TRUE
        ELSE FALSE

\* ------------------------------------------------------- CrossingOptimizer
\* `return waypoints` of the len < 4 branch
ShortInputResultEmpty(w) == <<>>

ShortInputResult(w) == w

\* range(len(optimized) - 3)
ScanI(s) == 0..(Len(s) - 4)

ScanJSkipLastEdge(s, i) == (i + 2)..(Len(s) - 3)

\* range(i + 2, len(optimized) - 1)
ScanJ(s, i) == (i + 2)..(Len(s) - 2)

\* the edge pairs of s on which the test of line 31 is true
Crossings(s) ==
    {c \in ScanI(s) \X (0..Len(s)) :
        /\ c[2] \in ScanJ(s, c[1])
        /\ SegmentsIntersect(At(s, c[1]), At(s, c[1] + 1), At(s, c[2]), At(s, c[2] + 1))}

LastCrossing(s) ==
    CHOOSE c \in Crossings(s) :
        \A d \in Crossings(s) : c[1] > d[1] \/ (c[1] = d[1] /\ c[2] >= d[2])

\* the pair at which the nested for loops break: smallest i, then smallest j
FirstCrossing(s) ==
    CHOOSE c \in Crossings(s) :
        \A d \in Crossings(s) : c[1] < d[1] \/ (c[1] = d[1] /\ c[2] <= d[2])

ReverseSliceFromI(s, lo, hi) ==
    Slice(s, 0, lo - 1) \o Reversed(Slice(s, lo - 1, hi)) \o Slice(s, hi, Len(s))

ReverseSliceDropLast(s, lo, hi) ==
    Slice(s, 0, lo) \o Reversed(Slice(s, lo, hi - 1)) \o Slice(s, hi, Len(s))

\* s[lo:hi] = reversed(s[lo:hi])
ReverseSlice(s, lo, hi) ==
    Slice(s, 0, lo) \o Reversed(Slice(s, lo, hi)) \o Slice(s, hi, Len(s))

ImprovedNotSet == FALSE

\* `improved = True` after a reversal
ImprovedAfterSwap == TRUE

NoSwap == <<>>

\* lines 14-16
OptEarlyReturn ==
    /\ opc = "call"
    /\ Len(waypoints) < 4
    /\ result' = ShortInputResult(waypoints)
    /\ firstResult' = IF ncall = 1 THEN result' ELSE firstResult
    /\ opc' = "returned"
    /\ UNCHANGED <<ncall, original, waypoints, optimized, improved, scans, swaps>>
    /\ UNCHANGED <<geomVars, genVars, rankVars, svcVars>>

\* lines 18-19
OptEnter ==
    /\ opc = "call"
    /\ ~(Len(waypoints) < 4)
    /\ optimized' = waypoints
    /\ improved' = TRUE
    /\ opc' = "loop"
    /\ UNCHANGED <<ncall, original, waypoints, scans, swaps, result, firstResult>>
    /\ UNCHANGED <<geomVars, genVars, rankVars, svcVars>>

\* one iteration of `while improved` (lines 21-38)
OptIterate ==
    /\ opc = "loop"
    /\ improved
    /\ scans' = (scans + 1) % 2
    /\ IF Crossings(optimized) = {}
       THEN /\ improved' = FALSE
            /\ UNCHANGED <<optimized, swaps>>
       ELSE LET c == FirstCrossing(optimized)
            IN  /\ optimized' = ReverseSlice(optimized, c[1] + 1, c[2] + 1)
                /\ swaps' = <<c[1], c[2], optimized>>
                /\ improved' = ImprovedAfterSwap
    /\ UNCHANGED <<opc, ncall, original, waypoints, result, firstResult>>
    /\ UNCHANGED <<geomVars, genVars, rankVars, svcVars>>

\* line 40
OptReturn ==
    /\ opc = "loop"
    /\ ~improved
    /\ result' = optimized
    /\ firstResult' = IF ncall = 1 THEN result' ELSE firstResult
    /\ opc' = "returned"
    /\ UNCHANGED <<ncall, original, waypoints, optimized, improved, scans, swaps>>
    /\ UNCHANGED <<geomVars, genVars, rankVars, svcVars>>

\* the optimizer is applied to its own result
OptAgain ==
    /\ opc = "returned"
    /\ ncall = 1
    /\ ncall' = 2
    /\ waypoints' = result
    /\ opc' = "call"
    /\ optimized' = <<>>
    /\ improved' = FALSE
    /\ scans' = 0
    /\ swaps' = NoSwap
    /\ UNCHANGED <<original, result, firstResult>>
    /\ UNCHANGED <<geomVars, genVars, rankVars, svcVars>>

OptIdle ==
    /\ opc = "idle" /\ ncall = 0 /\ original = <<>> /\ waypoints = <<>>
    /\ optimized = <<>> /\ improved = FALSE /\ scans = 0 /\ swaps = NoSwap
    /\ result = <<>> /\ firstResult = <<>>

\* waypoint locations handed to the optimizer: the grid points of the
\* triangle below the anti-diagonal (coincident points, collinear triples
\* and crossing diagonals all occur)
OptPoints == {p \in GridPoints : p[1] + p[2] <= GridMax}

OptInputs == UNION {[1..n -> OptPoints] : n \in 0..MaxLen}

OptStart ==
    /\ opc = "call" /\ ncall = 1
    /\ original \in OptInputs
    /\ waypoints = original
    /\ optimized = <<>> /\ improved = FALSE /\ scans = 0 /\ swaps = NoSwap
    /\ result = <<>> /\ firstResult = <<>>

\* longer inputs on the corners of the unit square: from five waypoints on
\* a scan meets more than one pair of non-adjacent edges
MaxScanLen == 5
SquarePoints == {0, 1} \X {0, 1}

ScanStart ==
    /\ opc = "call" /\ ncall = 1
    /\ original \in UNION {[1..n -> SquarePoints] : n \in 0..MaxScanLen}
    /\ waypoints = original
    /\ optimized = <<>> /\ improved = FALSE /\ scans = 0 /\ swaps = NoSwap
    /\ result = <<>> /\ firstResult = <<>>

OptNext ==
    \/ OptEarlyReturn
    \/ OptEnter
    \/ OptIterate
    \/ OptReturn
    \/ OptAgain

\* ------------------------------------------------ geometry kernel, applied
GeomIdle == gpc = "idle" /\ gArgs = <<>> /\ gRet = <<>>

GeomStart ==
    /\ gpc = "args"
    /\ gArgs \in GridPoints \X GridPoints \X GridPoints \X GridPoints
    /\ gRet = <<>>

CallSegmentsIntersect ==
    /\ gpc = "args"
    /\ gpc' = "segments_intersect"
    /\ gRet' = <<SegmentsIntersect(gArgs[1], gArgs[2], gArgs[3], gArgs[4])>>
    /\ UNCHANGED gArgs
    /\ UNCHANGED <<optVars, genVars, rankVars, svcVars>>

\* _orientation(a, b, c) and _orientation(c, b, a) on the first three points
CallOrientation ==
    /\ gpc = "args"
    /\ gpc' = "orientation"
    /\ gRet' = <<Orientation(gArgs[1], gArgs[2], gArgs[3]),
                 Orientation(gArgs[3], gArgs[2], gArgs[1])>>
    /\ UNCHANGED gArgs
    /\ UNCHANGED <<optVars, genVars, rankVars, svcVars>>

GeomNext ==
    \/ CallSegmentsIntersect
    \/ CallOrientation

\* ------------------------------------------------------- sorting helpers
\* list.sort / sorted on a list of <<item, key>> pairs: stable, ascending
InsertAscending(sorted, x) ==
    LET n == Cardinality({k \in 1..Len(sorted) : sorted[k][2] <= x[2]})
    IN  SubSeq(sorted, 1, n) \o <<x>> \o SubSeq(sorted, n + 1, Len(sorted))

RECURSIVE SortAscending(_)
SortAscending(s) ==
    IF s = <<>> THEN <<>>
    ELSE InsertAscending(SortAscending(SubSeq(s, 1, Len(s) - 1)), s[Len(s)])

InsertDescendingUnstable(sorted, x) ==
    LET n == Cardinality({k \in 1..Len(sorted) : sorted[k][2] > x[2]})
    IN  SubSeq(sorted, 1, n) \o <<x>> \o SubSeq(sorted, n + 1, Len(sorted))

\* sorted(..., reverse=True): stable, descending
InsertDescending(sorted, x) ==
    LET n == Cardinality({k \in 1..Len(sorted) : sorted[k][2] >= x[2]})
    IN  SubSeq(sorted, 1, n) \o <<x>> \o SubSeq(sorted, n + 1, Len(sorted))

RECURSIVE SortDescending(_)
SortDescending(s) ==
    IF s = <<>> THEN <<>>
    ELSE InsertDescending(SortDescending(SubSeq(s, 1, Len(s) - 1)), s[Len(s)])

Items(pairs) == [k \in 1..Len(pairs) |-> pairs[k][1]]

\* ------------------------------------------------------------- map service
TargetCategories == <<"park", "nature", "attraction", "restaurant">>
Categories == {TargetCategories[k] : k \in 1..Len(TargetCategories)}

None == "None"
PlaceNames == <<"A", "B", "C", "D">>

\* a place as _convert_places_to_standard_format returns it; the location
\* is the offset (north, east) from the center of the request
PlaceOffsets == <<<<1, 0>>, <<0, 1>>, <<-1, 0>>, <<0, -1>>>>

Place(p) == [place_id |-> p, name |-> PlaceNames[p], location |-> PlaceOffsets[p]]

\* search_radius = criteria.radius_km / 2; the radii of the model are even
SearchRadiusFull(crit) == crit.radius_km

SearchRadius(crit) == crit.radius_km \div 2

\* calculate_bearing for the eight compass directions around the center;
\* atan2(0, 0) is 0
Bearing(offset) ==
    CASE offset = <<0, 0>> -> 0
      [] offset = <<1, 0>> -> 0
      [] offset = <<1, 1>> -> 45
      [] offset = <<0, 1>> -> 90
      [] offset = <<-1, 1>> -> 135
      [] offset = <<-1, 0>> -> 180
      [] offset = <<-1, -1>> -> 225
      [] offset = <<0, -1>> -> 270
      [] offset = <<1, -1>> -> 315

\* the reply of the directions call of attempt k (_convert_routes_response)
DirectionsReply(k) ==
    [overview_polyline |-> <<"points", k>>, duration |-> <<"seconds", k>>,
     distance |-> 100 * k, viewport |-> <<"viewport", k>>]

\* ------------------------------------------------------------ RouteScorer
\* scores in tenths: 4 is 0.4
Scores == {4, 7, 9}

\* the "score" entry of a route dict: <<>> while the key is absent, <<v>> once set
NoScore == <<>>

\* --------------------------------------------------------- RouteAssembler
MinWaypoints == 2
MaxWaypoints == 3

\* random.sample(population, k): k distinct positions, in any order
Samples(population, k) ==
    {[n \in 1..k |-> population[f[n]]] :
        f \in {g \in [1..k -> 1..Len(population)] :
                 \A a, b \in 1..k : a # b => g[a] # g[b]}}

SelectWaypointsAll(population, k) == {population}

SelectWaypointsTwoAtMost(population, k) ==
    IF Len(population) < MinWaypoints THEN {population}
    ELSE Samples(population, MinWaypoints)

\* lines 130-137: all candidates when there are fewer than num_waypoints,
\* else a random sample of num_waypoints
SelectWaypoints(population, k) ==
    IF Len(population) < k THEN {population}
    ELSE Samples(population, k)

OrderAsSelected(wps) == wps

\* _optimize_waypoint_order_by_angle; at most MaxWaypoints waypoints are
\* ever selected, so the optimizer is in its len < 4 branch
OptimizeWaypointOrderByAngle(wps) ==
    IF Len(wps) <= 1 THEN wps
    ELSE LET with_angle == [k \in 1..Len(wps) |-> <<wps[k], Bearing(wps[k].location)>>]
         IN  ShortInputResult(Items(SortAscending(with_angle)))

PlaceIdsOf(places) == [k \in 1..Len(places) |-> places[k].place_id]

RangeOneShort(n) == 0..(n - 2)

\* range(max_routes)
Range(n) == 0..(n - 1)

RouteCandidateSameId(idx, places, place_ids, route_data, crit) ==
    [id |-> <<"route", 1>>,
     route_info |-> route_data,
     waypoints |-> [count |-> Len(places), places |-> places, place_ids |-> place_ids],
     metadata |-> [search_radius_km |-> SearchRadius(crit),
                   route_type |-> crit.route_type,
                   categories_used |-> {places[k].search_category : k \in 1..Len(places)}],
     criteria |-> crit,
     score |-> NoScore]

RouteCandidateFirstReply(idx, places, place_ids, route_data, crit) ==
    [id |-> <<"route", idx + 1>>,
     route_info |-> DirectionsReply(1),
     waypoints |-> [count |-> Len(places), places |-> places, place_ids |-> place_ids],
     metadata |-> [search_radius_km |-> SearchRadius(crit),
                   route_type |-> crit.route_type,
                   categories_used |-> {places[k].search_category : k \in 1..Len(places)}],
     criteria |-> crit,
     score |-> NoScore]

\* lines 162-184 of generation_service.py
RouteCandidate(idx, places, place_ids, route_data, crit) ==
    [id |-> <<"route", idx + 1>>,
     route_info |-> route_data,
     waypoints |-> [count |-> Len(places), places |-> places, place_ids |-> place_ids],
     metadata |-> [search_radius_km |-> SearchRadius(crit),
                   route_type |-> crit.route_type,
                   categories_used |-> {places[k].search_category : k \in 1..Len(places)}],
     criteria |-> crit,
     score |-> NoScore]

\* ------------------------------------------------------------ RankingStage
\* route.get("score", 0.0)
ScoreKey(route) == IF route.score = NoScore THEN 0 ELSE route.score[1]

\* the loop of lines 77-79: zip(routes, scores)
WithScores(routes, scores) ==
    [k \in 1..Len(routes) |->
        IF k <= Len(scores) THEN [routes[k] EXCEPT !.score = <<scores[k]>>] ELSE routes[k]]

SortedByScoreAscending(routes) ==
    Items(SortAscending([k \in 1..Len(routes) |-> <<routes[k], ScoreKey(routes[k])>>]))

\* line 82
SortedByScore(routes) ==
    Items(SortDescending([k \in 1..Len(routes) |-> <<routes[k], ScoreKey(routes[k])>>]))

NotRoutesNever(routes) == FALSE

\* `if not routes` (line 65)
NotRoutes(routes) == routes = <<>>

\* what predict_batch / predict may return for a score: the finite scores
\* and float("inf"), float("-inf"), which compare above and below every
\* finite float
PosInf == 1000
NegInf == 0 - 1000
ScoreValues == Scores \cup {PosInf, NegInf}

\* math.isfinite
IsFinite(v) == NegInf < v /\ v < PosInf

\* the route dict behind reference r before it is ranked: the candidate of
\* attempt r, with one waypoint
UnscoredRoute(r) ==
    RouteCandidate(r - 1, <<[search_category |-> "park"] @@ Place(1)>>, <<1>>,
                   DirectionsReply(r), [radius_km |-> 4, route_type |-> "loop"])

\* the loop of lines 77-79 on references: route["score"] = float(score),
\* in list order, so the last score wins for a dict that is listed twice
RECURSIVE AssignScores(_, _, _)
AssignScoresAndMetadata(h, refs, scores) ==
    IF refs = <<>> \/ scores = <<>> THEN h
    ELSE AssignScores([h EXCEPT ![Head(refs)].score = <<Head(scores)>>,
                                ![Head(refs)].metadata = [score |-> Head(scores)] @@ @],
                      Tail(refs), Tail(scores))

AssignScores(h, refs, scores) ==
    IF refs = <<>> \/ scores = <<>> THEN h
    ELSE AssignScores([h EXCEPT ![Head(refs)].score = <<Head(scores)>>],
                      Tail(refs), Tail(scores))

RankedRefsOnePerScore(h, refs) ==
    LET firsts == SelectSeq([k \in 1..Len(refs) |-> <<refs[k], k>>],
                      LAMBDA x : \A j \in 1..(x[2] - 1) :
                                    ScoreKey(h[refs[j]]) # ScoreKey(h[x[1]]))
    IN  Items(SortDescending([k \in 1..Len(firsts) |->
                                <<firsts[k][1], ScoreKey(h[firsts[k][1]])>>]))

\* line 82 on references
RankedRefs(h, refs) ==
    Items(SortDescending([k \in 1..Len(refs) |-> <<refs[k], ScoreKey(h[refs[k]])>>]))

\* --------------------------------------------------------- ResponseBuilder
DefaultScore == 8

\* Waypoint(...) is a pydantic model: a name that is not a string raises
MappingRaises(route_data) ==
    \E k \in 1..Len(route_data.waypoints.places) :
        route_data.waypoints.places[k].name = None

\* lines 60-67 with the test of line 62 taken as len(waypoints) >= 2
RouteNameMoreFromTwo(i, names) ==
    IF Len(names) > 0
    THEN IF Len(names) >= 2
         THEN <<"Via ", names[1], ", ", names[2], " +", Len(names) - 2, " more">>
         ELSE <<"Via ", names[1]>>
    ELSE <<"Route ", i + 1>>

\* lines 60-67 of response_builder.py
RouteName(i, names) ==
    IF Len(names) > 0
    THEN IF Len(names) > 2
         THEN <<"Via ", names[1], ", ", names[2], " +", Len(names) - 2, " more">>
         ELSE IF Len(names) = 2 THEN <<"Via ", names[1], " & ", names[2]>>
         ELSE <<"Via ", names[1]>>
    ELSE <<"Route ", i + 1>>

\* lines 26-79 of response_builder.py, for the i-th (0-based) entry
RouteView(i, route_data) ==
    LET places == route_data.waypoints.places
    IN  [id |-> route_data.id,
         name |-> RouteName(i, [k \in 1..Len(places) |-> places[k].name]),
         distance |-> route_data.route_info.distance,
         duration |-> route_data.route_info.duration,
         waypoints |-> places,
         geometry |-> [overview_polyline |-> route_data.route_info.overview_polyline,
                       viewport |-> route_data.route_info.viewport],
         metadata |-> route_data.metadata,
         score |-> IF route_data.score = NoScore THEN DefaultScore ELSE route_data.score[1]]

RECURSIVE MappedRoutes(_, _)
\* the loop of lines 24-84 without the except clause: the first entry that
\* raises ends the mapping
MappedRoutesAbortOnRaise(routes_data, i) ==
    IF i >= Len(routes_data) THEN <<>>
    ELSE IF MappingRaises(At(routes_data, i)) THEN <<>>
         ELSE <<RouteView(i, At(routes_data, i))>> \o MappedRoutes(routes_data, i + 1)

MappedRoutes(routes_data, i) ==
    IF i >= Len(routes_data) THEN <<>>
    ELSE (IF MappingRaises(At(routes_data, i)) THEN <<>>
          ELSE <<RouteView(i, At(routes_data, i))>>)
         \o MappedRoutes(routes_data, i + 1)

BuildResponseSuccessIfRoutes(routes_data) ==
    LET routes == MappedRoutes(routes_data, 0)
    IN  [success |-> routes # <<>>, message |-> <<"Successfully generated", Len(routes), "routes">>,
         routes |-> routes, total_count |-> Len(routes), criteria |-> <<>>]

\* build_response
BuildResponse(routes_data) ==
    LET routes == MappedRoutes(routes_data, 0)
    IN  [success |-> TRUE, message |-> <<"Successfully generated", Len(routes), "routes">>,
         routes |-> routes, total_count |-> Len(routes), criteria |-> <<>>]

\* -------------------------------------------------------- RouteOrchestrator
TopN == 5

Take(s, n) == SubSeq(s, 1, IF n < Len(s) THEN n ELSE Len(s))

NeverEmpty(routes) == FALSE

\* `if not candidate_routes` (route_service.py line 36)
NoCandidates(routes) == routes = <<>>

\* where generate_routes goes when generate_candidate_routes has returned
AfterGeneration(routes) == IF NoCandidates(routes) THEN "Building" ELSE "Ranking"

NoResponse == <<>>

ScorerFailureIgnored == "Building"

\* an exception of predict_batch / predict is caught neither by rank_routes
\* nor by generate_routes: the call ends with it
OnScorerFailure == "Failed"

\* one iteration of `for category in target_categories` (lines 100-115)
SearchCategory ==
    /\ stage = "Sampling"
    /\ catIdx < Len(TargetCategories)
    /\ LET category == At(TargetCategories, catIdx)
       IN  /\ searchLog' = Append(searchLog,
                  [category |-> category, radius_km |-> SearchRadius(criteria)])
           /\ \E outcome \in {"raise", "ok"} :
                IF outcome = "ok"
                THEN LET places == catalog[category]
                     IN  pool' = pool \o [k \in 1..Len(places) |->
                                 [search_category |-> category] @@ Place(places[k])]
                ELSE pool' = pool
    /\ catIdx' = catIdx + 1
    /\ UNCHANGED <<stage, catalog, criteria, maxRoutes, routeIdx, candidates, ranked,
                   response, dirLog, rankCalls, scorerCalls, numWaypoints>>
    /\ UNCHANGED <<geomVars, optVars, rankVars, svcVars>>

\* lines 117-124: no waypoint candidate, return []; else go on to the attempts
EndSampling ==
    /\ stage = "Sampling"
    /\ catIdx = Len(TargetCategories)
    /\ IF pool = <<>>
       THEN /\ stage' = AfterGeneration(<<>>)
            /\ ranked' = <<>>
       ELSE /\ stage' = "Assembling"
            /\ UNCHANGED ranked
    /\ UNCHANGED <<catalog, criteria, maxRoutes, catIdx, pool, routeIdx, candidates,
                   response, searchLog, dirLog, rankCalls, scorerCalls, numWaypoints>>
    /\ UNCHANGED <<geomVars, optVars, rankVars, svcVars>>

\* one iteration of `for route_idx in range(max_routes)` (lines 126-197)
Attempt ==
    /\ stage = "Assembling"
    /\ routeIdx \in Range(maxRoutes)
    /\ \E num_waypoints \in MinWaypoints..MaxWaypoints :
       \E selected \in SelectWaypoints(pool, num_waypoints) :
       \E outcome \in {"raise", "empty", "ok"} :
         LET optimized_waypoints == OptimizeWaypointOrderByAngle(selected)
             waypoint_place_ids == PlaceIdsOf(optimized_waypoints)
         IN  /\ numWaypoints' = num_waypoints
             /\ dirLog' = Append(dirLog,
                    [attempt |-> routeIdx + 1, waypoints |-> waypoint_place_ids])
             /\ candidates' =
                    IF outcome = "ok"
                    THEN Append(candidates,
                                RouteCandidate(routeIdx, optimized_waypoints,
                                    waypoint_place_ids, DirectionsReply(routeIdx + 1),
                                    criteria))
                    ELSE candidates
    /\ routeIdx' = routeIdx + 1
    /\ UNCHANGED <<stage, catalog, criteria, maxRoutes, catIdx, pool, ranked, response,
                   searchLog, rankCalls, scorerCalls>>
    /\ UNCHANGED <<geomVars, optVars, rankVars, svcVars>>

\* line 200 and route_service.py lines 36-38
EndAssembling ==
    /\ stage = "Assembling"
    /\ routeIdx \notin Range(maxRoutes)
    /\ stage' = AfterGeneration(candidates)
    /\ ranked' = <<>>
    /\ numWaypoints' = 0
    /\ UNCHANGED <<catalog, criteria, maxRoutes, catIdx, pool, routeIdx, candidates,
                   response, searchLog, dirLog, rankCalls, scorerCalls>>
    /\ UNCHANGED <<geomVars, optVars, rankVars, svcVars>>

\* rank_routes followed by the [:5] of route_service.py line 47; the model
\* either raises or returns one finite score per route
RankRoutes ==
    /\ stage = "Ranking"
    /\ rankCalls' = rankCalls + 1
    /\ IF NotRoutes(candidates)
       THEN /\ ranked' = <<>>
            /\ stage' = "Building"
            /\ UNCHANGED <<candidates, scorerCalls>>
       ELSE /\ scorerCalls' = scorerCalls + 1
            /\ \/ /\ stage' = OnScorerFailure
                  /\ UNCHANGED <<candidates, ranked>>
               \/ \E scores \in [1..Len(candidates) -> Scores] :
                    /\ candidates' = WithScores(candidates, scores)
                    /\ ranked' = Take(SortedByScore(candidates'), TopN)
                    /\ stage' = "Building"
    /\ UNCHANGED <<catalog, criteria, maxRoutes, catIdx, pool, routeIdx, response,
                   searchLog, dirLog, numWaypoints>>
    /\ UNCHANGED <<geomVars, optVars, rankVars, svcVars>>

\* build_response, then line 50 when ranking was not skipped
BuildAndReturn ==
    /\ stage = "Building"
    /\ response' = IF rankCalls = 0 THEN <<BuildResponse(ranked)>>
                   ELSE <<[BuildResponse(ranked) EXCEPT !.criteria = criteria]>>
    /\ stage' = "Done"
    /\ UNCHANGED <<catalog, criteria, maxRoutes, catIdx, pool, routeIdx, candidates,
                   ranked, searchLog, dirLog, rankCalls, scorerCalls, numWaypoints>>
    /\ UNCHANGED <<geomVars, optVars, rankVars, svcVars>>

\* -------------------------------------------------- rank_routes, applied
MaxRankLen == 3
Refs == 1..MaxRankLen

\* lines 65-66
RankEmptyList ==
    /\ rpc = "call"
    /\ NotRoutes(rkRoutes)
    /\ rkResult' = <<>>
    /\ rpc' = "returned"
    /\ UNCHANGED <<rkRoutes, rkHeap, rkScores, rkCalls>>
    /\ UNCHANGED <<geomVars, optVars, genVars, svcVars>>

\* lines 72-82 when the model returns one score per route
RankScoreAndSort ==
    /\ rpc = "call"
    /\ ~NotRoutes(rkRoutes)
    /\ rkCalls' = Append(rkCalls, rkRoutes)
    /\ \E scores \in [1..Len(rkRoutes) -> ScoreValues] :
         /\ rkScores' = scores
         /\ rkHeap' = AssignScores(rkHeap, rkRoutes, scores)
         /\ rkResult' = RankedRefs(rkHeap', rkRoutes)
    /\ rpc' = "returned"
    /\ UNCHANGED rkRoutes
    /\ UNCHANGED <<geomVars, optVars, genVars, svcVars>>

\* lines 72-75 when the model raises: nothing catches the exception
RankScorerRaises ==
    /\ rpc = "call"
    /\ ~NotRoutes(rkRoutes)
    /\ rkCalls' = Append(rkCalls, rkRoutes)
    /\ rpc' = "raised"
    /\ UNCHANGED <<rkRoutes, rkHeap, rkScores, rkResult>>
    /\ UNCHANGED <<geomVars, optVars, genVars, svcVars>>

RankNext ==
    \/ RankEmptyList
    \/ RankScoreAndSort
    \/ RankScorerRaises

RankIdle ==
    /\ rpc = "idle" /\ rkRoutes = <<>> /\ rkHeap = <<>> /\ rkScores = <<>>
    /\ rkResult = <<>> /\ rkCalls = <<>>

\* any list of at most MaxRankLen references; a route dict may be listed twice
RankStart ==
    /\ rpc = "call"
    /\ rkRoutes \in UNION {[1..n -> Refs] : n \in 0..MaxRankLen}
    /\ rkHeap = [r \in Refs |-> UnscoredRoute(r)]
    /\ rkScores = <<>> /\ rkResult = <<>> /\ rkCalls = <<>>

GenIdle ==
    /\ stage = "idle" /\ catalog = <<>> /\ criteria = <<>> /\ maxRoutes = 0
    /\ catIdx = 0 /\ pool = <<>> /\ routeIdx = 0 /\ candidates = <<>>
    /\ ranked = <<>> /\ response = NoResponse /\ searchLog = <<>> /\ dirLog = <<>>
    /\ rankCalls = 0 /\ scorerCalls = 0 /\ numWaypoints = 0

\* map services with at most one park and at most one (other) nature place
SmallCatalogs ==
    {[c \in Categories |-> IF c = "park" THEN a ELSE IF c = "nature" THEN b ELSE <<>>] :
        a \in {<<>>, <<1>>}, b \in {<<>>, <<2>>}}

GenStart ==
    /\ stage = "Sampling"
    /\ catalog \in SmallCatalogs
    /\ criteria = [radius_km |-> 4, route_type |-> "loop"]
    /\ maxRoutes = MaxRoutes
    /\ catIdx = 0 /\ pool = <<>> /\ routeIdx = 0 /\ candidates = <<>>
    /\ ranked = <<>> /\ response = NoResponse /\ searchLog = <<>> /\ dirLog = <<>>
    /\ rankCalls = 0 /\ scorerCalls = 0 /\ numWaypoints = 0

\* attempts of one run of the assembler on the larger pools
MaxAttempts == 2

\* two map services: one with two parks, a nature place and a restaurant,
\* one where place 1 is listed both as a park and as an attraction, with a
\* restaurant; the queries that raise leave pools of 0 to 4 of these places
RichCatalogs ==
    {[c \in Categories |->
        CASE c = "park" -> <<1, 2>>
          [] c = "nature" -> <<3>>
          [] c = "restaurant" -> <<4>>
          [] OTHER -> <<>>],
     [c \in Categories |->
        CASE c = "park" -> <<1>>
          [] c = "attraction" -> <<1>>
          [] c = "restaurant" -> <<4>>
          [] OTHER -> <<>>]}

\* a request of radius 2 km to the first map service, 4 km to the second
AsmStart ==
    /\ stage = "Sampling"
    /\ catalog \in RichCatalogs
    /\ criteria = [radius_km |-> IF catalog["nature"] # <<>> THEN 2 ELSE 4,
                   route_type |-> "loop"]
    /\ maxRoutes = MaxAttempts
    /\ catIdx = 0 /\ pool = <<>> /\ routeIdx = 0 /\ candidates = <<>>
    /\ ranked = <<>> /\ response = NoResponse /\ searchLog = <<>> /\ dirLog = <<>>
    /\ rankCalls = 0 /\ scorerCalls = 0 /\ numWaypoints = 0

\* ----------------------------------------------- build_response, applied
MaxBuildLen == 3

\* the places of a candidate with n waypoints
CandidatePlaces(n) == [k \in 1..n |-> [search_category |-> "park"] @@ Place(k)]

\* a place whose name is None instead of a string
NamelessPlace == [search_category |-> "park"] @@ [Place(4) EXCEPT !.name = None]

\* the candidates build_response is applied to: well-formed ones with 0 to 3
\* waypoints (ids route_1 .. route_4) and a malformed one (route_5)
BuildCandidates ==
    {RouteCandidate(n, CandidatePlaces(n), [k \in 1..n |-> k], DirectionsReply(n + 1),
                    [radius_km |-> 4, route_type |-> "loop"]) : n \in 0..3}
    \cup {RouteCandidate(4, <<NamelessPlace>>, <<4>>, DirectionsReply(5),
                          [radius_km |-> 4, route_type |-> "loop"])}

BuildIdle == bpc = "idle" /\ bInput = <<>> /\ bResponse = NoResponse

BuildStart ==
    /\ bpc = "call"
    /\ bInput \in UNION {[1..n -> BuildCandidates] : n \in 0..MaxBuildLen}
    /\ bResponse = NoResponse

\* build_response on a list none of whose entries raises
BuildAllMapped ==
    /\ bpc = "call"
    /\ \A k \in 1..Len(bInput) : ~MappingRaises(bInput[k])
    /\ bResponse' = <<BuildResponse(bInput)>>
    /\ bpc' = "returned"
    /\ UNCHANGED bInput
    /\ UNCHANGED <<coreVars, parseVars, counterVars>>

\* build_response on a list with an entry that raises (lines 82-84)
BuildSomeSkipped ==
    /\ bpc = "call"
    /\ \E k \in 1..Len(bInput) : MappingRaises(bInput[k])
    /\ bResponse' = <<BuildResponse(bInput)>>
    /\ bpc' = "returned"
    /\ UNCHANGED bInput
    /\ UNCHANGED <<coreVars, parseVars, counterVars>>

BuildNext ==
    \/ BuildAllMapped
    \/ BuildSomeSkipped

\* ------------------------------------------ RouteCriteriaParserService
MaxQueryLen == 4
MaxThreshold == 2

\* queries are written with one letter and the blank
Queries == UNION {[1..n -> {"a", " "}] : n \in 0..MaxQueryLen}

\* the length of the leading run of non-blank characters
RECURSIVE WordLen(_)
WordLen(text) ==
    IF text = <<>> \/ Head(text) = " " THEN 0 ELSE 1 + WordLen(Tail(text))

\* str.split()
RECURSIVE Split(_)
Split(text) ==
    IF text = <<>> THEN <<>>
    ELSE IF Head(text) = " " THEN Split(Tail(text))
    ELSE <<SubSeq(text, 1, WordLen(text))>> \o Split(SubSeq(text, WordLen(text) + 1, Len(text)))

\* " ".join(words)
RECURSIVE Join(_)
Join(words) ==
    IF words = <<>> THEN <<>>
    ELSE IF Len(words) = 1 THEN words[1]
    ELSE words[1] \o <<" ">> \o Join(Tail(words))

\* QueryPreprocessor._normalize_whitespace
NormalizeWhitespace(text) == Join(Split(text))

\* _count_words
CountWords(text) == IF text = <<>> THEN 0 ELSE Len(Split(text))

\* line 30 of parser_service.py
BasicModelWordThreshold(arg) == IF arg > 0 THEN arg ELSE 0

\* line 39 with < in place of <=
WithinThresholdStrict(text, arg) == CountWords(text) < BasicModelWordThreshold(arg)

\* line 39
WithinThreshold(text, arg) == CountWords(text) <= BasicModelWordThreshold(arg)

\* what a client returns for a text
Payload(client, text) == [source |-> client, text |-> text]

ParseStart ==
    /\ ppc = "call"
    /\ pQuery \in Queries
    /\ pThreshold \in (0 - 1)..MaxThreshold
    /\ pText = <<>> /\ basicCalls = <<>> /\ llmCalls = <<>> /\ pRaw = <<>> /\ pValidated = <<>>

\* line 33
Preprocess ==
    /\ ppc = "call"
    /\ pText' = NormalizeWhitespace(pQuery)
    /\ ppc' = "dispatch"
    /\ UNCHANGED <<pQuery, pThreshold, basicCalls, llmCalls, pRaw, pValidated>>
    /\ UNCHANGED <<coreVars, buildVars, counterVars>>

\* lines 38-41: the basic client returns a payload
DispatchBasicReturns ==
    /\ ppc = "dispatch"
    /\ WithinThreshold(pText, pThreshold)
    /\ basicCalls' = Append(basicCalls, [text |-> pText, outcome |-> "returned"])
    /\ pRaw' = <<Payload("basic", pText)>>
    /\ ppc' = "validate"
    /\ UNCHANGED <<pQuery, pText, pThreshold, llmCalls, pValidated>>
    /\ UNCHANGED <<coreVars, buildVars, counterVars>>

\* lines 38-44: the basic client raises RuntimeError, which is swallowed
DispatchBasicUnavailable ==
    /\ ppc = "dispatch"
    /\ WithinThreshold(pText, pThreshold)
    /\ basicCalls' = Append(basicCalls, [text |-> pText, outcome |-> "RuntimeError"])
    /\ ppc' = "llm"
    /\ UNCHANGED <<pQuery, pText, pThreshold, llmCalls, pRaw, pValidated>>
    /\ UNCHANGED <<coreVars, buildVars, counterVars>>

\* lines 38-42: the basic client raises another exception, which propagates
DispatchBasicRaises ==
    /\ ppc = "dispatch"
    /\ WithinThreshold(pText, pThreshold)
    /\ basicCalls' = Append(basicCalls, [text |-> pText, outcome |-> "Exception"])
    /\ ppc' = "raised"
    /\ UNCHANGED <<pQuery, pText, pThreshold, llmCalls, pRaw, pValidated>>
    /\ UNCHANGED <<coreVars, buildVars, counterVars>>

\* lines 38-39: the query is longer than the threshold
DispatchLong ==
    /\ ppc = "dispatch"
    /\ ~WithinThreshold(pText, pThreshold)
    /\ ppc' = "llm"
    /\ UNCHANGED <<pQuery, pText, pThreshold, basicCalls, llmCalls, pRaw, pValidated>>
    /\ UNCHANGED <<coreVars, buildVars, counterVars>>

\* line 45: the LLM client returns a payload
LLMReturns ==
    /\ ppc = "llm"
    /\ llmCalls' = Append(llmCalls, pText)
    /\ pRaw' = <<Payload("llm", pText)>>
    /\ ppc' = "validate"
    /\ UNCHANGED <<pQuery, pText, pThreshold, basicCalls, pValidated>>
    /\ UNCHANGED <<coreVars, buildVars, counterVars>>

\* line 45: the LLM client raises
LLMRaises ==
    /\ ppc = "llm"
    /\ llmCalls' = Append(llmCalls, pText)
    /\ ppc' = "raised"
    /\ UNCHANGED <<pQuery, pText, pThreshold, basicCalls, pRaw, pValidated>>
    /\ UNCHANGED <<coreVars, buildVars, counterVars>>

\* line 35: the validator returns the criteria, or raises
Validate ==
    /\ ppc = "validate"
    /\ pValidated' = Append(pValidated, pRaw[1])
    /\ ppc' \in {"returned", "raised"}
    /\ UNCHANGED <<pQuery, pText, pThreshold, basicCalls, llmCalls, pRaw>>
    /\ UNCHANGED <<coreVars, buildVars, counterVars>>

ParseNext ==
    \/ Preprocess
    \/ DispatchBasicReturns
    \/ DispatchBasicUnavailable
    \/ DispatchBasicRaises
    \/ DispatchLong
    \/ LLMReturns
    \/ LLMRaises
    \/ Validate

ParseIdle ==
    /\ ppc = "idle" /\ pQuery = <<>> /\ pText = <<>> /\ pThreshold = 0 /\ basicCalls = <<>>
    /\ llmCalls = <<>> /\ pRaw = <<>> /\ pValidated = <<>>

\* ------------------------------------------- GoogleMapService, APICounter
\* settings.max_api_calls_per_day, scaled down from 1000
MaxCallsPerDay == 3

\* coroutines calling the map service on one event loop
MaxClients == 3
Clients == 1..MaxClients

\* can_make_call, within one day (the date does not change, line 20)
CanMakeCall(calls) == calls < MaxCallsPerDay

\* record_call
RecordCall(calls) == calls + 1

\* a coroutine that is not inside a call of the map service
Resting(c) == cpc[c] \in {"idle", "returned", "raised"}

CounterIdle == callCount = 0 /\ cpc = <<>>

CounterStart == callCount = 0 /\ cpc = [c \in Clients |-> "idle"]

\* find_nearby_places, lines 33 and 56-71: the check passes, the request is sent
FindNearbyPlacesCall(c) ==
    /\ Resting(c)
    /\ CanMakeCall(callCount)
    /\ cpc' = [cpc EXCEPT ![c] = "nearby"]
    /\ UNCHANGED callCount
    /\ UNCHANGED <<coreVars, buildVars, parseVars>>

\* find_nearby_places, lines 33-36: the check fails
FindNearbyPlacesRefused(c) ==
    /\ Resting(c)
    /\ ~CanMakeCall(callCount)
    /\ cpc[c] # "raised"
    /\ cpc' = [cpc EXCEPT ![c] = "raised"]
    /\ UNCHANGED callCount
    /\ UNCHANGED <<coreVars, buildVars, parseVars>>

\* find_nearby_places, lines 71-80: the reply is a success and is recorded
NearbyReplyRecorded(c) ==
    /\ cpc[c] = "nearby"
    /\ callCount' = RecordCall(callCount)
    /\ cpc' = [cpc EXCEPT ![c] = "returned"]
    /\ UNCHANGED <<coreVars, buildVars, parseVars>>

\* find_nearby_places, lines 71 and 82-103: the request fails, nothing is recorded
NearbyReplyFails(c) ==
    /\ cpc[c] = "nearby"
    /\ cpc' = [cpc EXCEPT ![c] = "raised"]
    /\ UNCHANGED callCount
    /\ UNCHANGED <<coreVars, buildVars, parseVars>>

\* get_directions, lines 180 and 187, _find_nearest_navigable_point, lines
\* 114 and 135-145: both checks pass (nothing runs between them) and the
\* request for the nearest place is sent
GetDirectionsCall(c) ==
    /\ Resting(c)
    /\ CanMakeCall(callCount)
    /\ cpc' = [cpc EXCEPT ![c] = "nearest"]
    /\ UNCHANGED callCount
    /\ UNCHANGED <<coreVars, buildVars, parseVars>>

\* get_directions, lines 180-183: the check fails
GetDirectionsRefused(c) ==
    /\ Resting(c)
    /\ ~CanMakeCall(callCount)
    /\ cpc[c] # "raised"
    /\ cpc' = [cpc EXCEPT ![c] = "raised"]
    /\ UNCHANGED callCount
    /\ UNCHANGED <<coreVars, buildVars, parseVars>>

\* _find_nearest_navigable_point, lines 145-160, get_directions, lines 189-211:
\* the reply is recorded, a place was found, and the routes request is sent
\* without another check
NearestReplyRecorded(c) ==
    /\ cpc[c] = "nearest"
    /\ callCount' = RecordCall(callCount)
    /\ cpc' = [cpc EXCEPT ![c] = "routes"]
    /\ UNCHANGED <<coreVars, buildVars, parseVars>>

\* _find_nearest_navigable_point, lines 145-163, get_directions, lines 193-197:
\* the reply is recorded but holds no place, and get_directions raises
NearestReplyNoPlace(c) ==
    /\ cpc[c] = "nearest"
    /\ callCount' = RecordCall(callCount)
    /\ cpc' = [cpc EXCEPT ![c] = "raised"]
    /\ UNCHANGED <<coreVars, buildVars, parseVars>>

\* _find_nearest_navigable_point, lines 165-168, get_directions, lines 193-197:
\* the request fails, nothing is recorded, and get_directions raises
NearestReplyFails(c) ==
    /\ cpc[c] = "nearest"
    /\ cpc' = [cpc EXCEPT ![c] = "raised"]
    /\ UNCHANGED callCount
    /\ UNCHANGED <<coreVars, buildVars, parseVars>>

\* get_directions, lines 211-219: the reply is a success and is recorded
RoutesReplyRecorded(c) ==
    /\ cpc[c] = "routes"
    /\ callCount' = RecordCall(callCount)
    /\ cpc' = [cpc EXCEPT ![c] = "returned"]
    /\ UNCHANGED <<coreVars, buildVars, parseVars>>

\* get_directions, lines 211 and 221-242: the request fails, nothing is recorded
RoutesReplyFails(c) ==
    /\ cpc[c] = "routes"
    /\ cpc' = [cpc EXCEPT ![c] = "raised"]
    /\ UNCHANGED callCount
    /\ UNCHANGED <<coreVars, buildVars, parseVars>>

CounterNext ==
    \/ \E c \in Clients : FindNearbyPlacesCall(c)
    \/ \E c \in Clients : FindNearbyPlacesRefused(c)
    \/ \E c \in Clients : NearbyReplyRecorded(c)
    \/ \E c \in Clients : NearbyReplyFails(c)
    \/ \E c \in Clients : GetDirectionsCall(c)
    \/ \E c \in Clients : GetDirectionsRefused(c)
    \/ \E c \in Clients : NearestReplyRecorded(c)
    \/ \E c \in Clients : NearestReplyNoPlace(c)
    \/ \E c \in Clients : NearestReplyFails(c)
    \/ \E c \in Clients : RoutesReplyRecorded(c)
    \/ \E c \in Clients : RoutesReplyFails(c)

\* ---------------------------------------------------------- specifications
vars == <<coreVars, svcVars>>

CoreIdle == GeomIdle /\ OptIdle /\ GenIdle /\ RankIdle
SvcIdle == BuildIdle /\ ParseIdle /\ CounterIdle

BuildInit == BuildStart /\ CoreIdle /\ ParseIdle /\ CounterIdle
BuildSpec == BuildInit /\ [][BuildNext]_vars

ParseInit == ParseStart /\ CoreIdle /\ BuildIdle /\ CounterIdle
ParseSpec == ParseInit /\ [][ParseNext]_vars

CounterInit == CounterStart /\ CoreIdle /\ BuildIdle /\ ParseIdle
CounterSpec == CounterInit /\ [][CounterNext]_vars

GeomInit == GeomStart /\ OptIdle /\ GenIdle /\ RankIdle /\ SvcIdle
GeomSpec == GeomInit /\ [][GeomNext]_vars

OptInit == OptStart /\ GeomIdle /\ GenIdle /\ RankIdle /\ SvcIdle
OptSpec == OptInit /\ [][OptNext]_vars
OptLive == OptSpec /\ WF_vars(OptNext)

ScanInit == ScanStart /\ GeomIdle /\ GenIdle /\ RankIdle /\ SvcIdle
ScanSpec == ScanInit /\ [][OptNext]_vars

Init == GenStart /\ GeomIdle /\ OptIdle /\ RankIdle /\ SvcIdle
Next ==
    \/ SearchCategory
    \/ EndSampling
    \/ Attempt
    \/ EndAssembling
    \/ RankRoutes
    \/ BuildAndReturn
Spec == Init /\ [][Next]_vars

AsmInit == AsmStart /\ GeomIdle /\ OptIdle /\ RankIdle /\ SvcIdle
AsmSpec == AsmInit /\ [][Next]_vars

RankInit == RankStart /\ GeomIdle /\ OptIdle /\ GenIdle /\ SvcIdle
RankSpec == RankInit /\ [][RankNext]_vars

\* ------------------------------------------------------------- properties
Dot(u, v) == u[1] * v[1] + u[2] * v[2]
Cross(u, v) == u[1] * v[2] - u[2] * v[1]
Minus(p, q) == <<p[1] - q[1], p[2] - q[2]>>

\* q = a + t (b - a) for some 0 <= t <= 1
PointOnClosedSegment(q, a, b) ==
    IF a = b THEN q = a
    ELSE /\ Cross(Minus(q, a), Minus(b, a)) = 0
         /\ 0 <= Dot(Minus(q, a), Minus(b, a))
         /\ Dot(Minus(q, a), Minus(b, a)) <= Dot(Minus(b, a), Minus(b, a))

\* the closed segments p1p2 and p3p4 have a common point: solve
\* p1 + t (p2 - p1) = p3 + u (p4 - p3) for t, u in [0, 1]
ClosedSegmentsMeet(p1, p2, p3, p4) ==
    LET det == Cross(Minus(p2, p1), Minus(p4, p3))
        tn == Cross(Minus(p3, p1), Minus(p4, p3))
        un == Cross(Minus(p3, p1), Minus(p2, p1))
    IN  IF det > 0 THEN 0 <= tn /\ tn <= det /\ 0 <= un /\ un <= det
        ELSE IF det < 0 THEN det <= tn /\ tn <= 0 /\ det <= un /\ un <= 0
        ELSE \/ PointOnClosedSegment(p3, p1, p2)
             \/ PointOnClosedSegment(p4, p1, p2)
             \/ PointOnClosedSegment(p1, p3, p4)
             \/ PointOnClosedSegment(p2, p3, p4)

\* no two non-adjacent edges of r intersect
NoCrossing(r) ==
    \A i, j \in 0..(Len(r) - 2) :
        j >= i + 2 =>
            ~SegmentsIntersect(At(r, i), At(r, i + 1), At(r, j), At(r, j + 1))

Occurrences(s, p) == Cardinality({k \in 1..Len(s) : s[k] = p})

\* same length and every waypoint of s occurs as often in t as in s
IsPermutation(s, t) ==
    /\ Len(s) = Len(t)
    /\ \A k \in 1..Len(s) : Occurrences(s, s[k]) = Occurrences(t, s[k])

Bowtie == <<<<0, 0>>, <<1, 1>>, <<1, 0>>, <<0, 1>>>>

\* C1: from every input the optimizer eventually returns.
C1_Terminates == <>(opc = "returned")

\* C2: whenever the optimizer returns r, no two non-adjacent edges of r
\* satisfy _segments_intersect.
C2_NoCrossingOnReturn == opc = "returned" => NoCrossing(result)

C2_Witness ==
    /\ opc = "returned" /\ ncall = 1
    /\ original = Bowtie
    /\ result = <<<<0, 0>>, <<1, 0>>, <<1, 1>>, <<0, 1>>>>

\* C3: an input of fewer than 4 waypoints is returned as it is.
C3_ShortInputUnchanged ==
    (opc = "returned" /\ Len(waypoints) < 4) => result = waypoints

C3_Witness ==
    /\ opc = "returned" /\ ncall = 1
    /\ Len(waypoints) = 3 /\ result = waypoints
    /\ waypoints[1] # waypoints[2]

\* C4: when optimize(w) returns, optimize(optimize(w)) returns the same
\* sequence and its pass performs no reversal.
C4_Idempotent ==
    ncall = 2 =>
        /\ swaps = NoSwap
        /\ opc = "returned" => result = firstResult

C4_Witness ==
    /\ ncall = 2 /\ opc = "returned"
    /\ Len(original) >= 4
    /\ firstResult # original
    /\ result = firstResult

\* C5: in the loop and on return the working sequence is a permutation of
\* the input: same length, same multiset of waypoints.
C5_Permutation ==
    /\ opc = "loop" => IsPermutation(optimized, waypoints)
    /\ opc = "returned" => IsPermutation(result, waypoints)

C5_Witness ==
    /\ opc = "loop" /\ swaps # NoSwap
    /\ optimized # waypoints
    /\ IsPermutation(optimized, waypoints)

\* C6: _segments_intersect is true exactly when the closed segments p1p2
\* and p3p4 have a common point (proper crossing, touching, collinear
\* overlap, zero-length segments).
C6_SegmentsIntersectExact ==
    gpc = "segments_intersect" =>
        gRet[1] = ClosedSegmentsMeet(gArgs[1], gArgs[2], gArgs[3], gArgs[4])

C6_Witness ==
    /\ gpc = "segments_intersect"
    /\ gArgs[3] = gArgs[4] /\ gArgs[1] # gArgs[2]
    /\ gArgs[3] # gArgs[1] /\ gArgs[3] # gArgs[2]
    /\ gRet[1] = TRUE

\* C7: _orientation(a,b,c) is 0 exactly when _orientation(c,b,a) is 0, and
\* otherwise one is 1 (clockwise) and the other 2 (counter-clockwise).
C7_OrientationAntisymmetric ==
    gpc = "orientation" =>
        \/ gRet = <<0, 0>>
        \/ gRet = <<1, 2>>
        \/ gRet = <<2, 1>>

C7_Witness == gpc = "orientation" /\ gRet = <<1, 2>>


\* the order of the stages of one run; "Failed" is the run ended by an
\* exception of the scorer
StageSuccessors(s) ==
    CASE s = "Sampling" -> {"Sampling", "Assembling", "Building"}
      [] s = "Assembling" -> {"Assembling", "Ranking", "Building"}
      [] s = "Ranking" -> {"Building", "Failed"}
      [] s = "Building" -> {"Done"}
      [] OTHER -> {}

NoRepeat(s) == \A a, b \in 1..Len(s) : a # b => s[a] # s[b]

C8_Step ==
    /\ stage' \in StageSuccessors(stage)
    \* place searches: only while sampling, before any directions call
    /\ searchLog' # searchLog =>
          stage = "Sampling" /\ dirLog' = <<>> /\ scorerCalls' = 0 /\ response' = NoResponse
    \* directions calls: only while assembling, after all searches, before the scorer
    /\ dirLog' # dirLog =>
          /\ stage = "Assembling" /\ Len(searchLog) = Len(TargetCategories)
          /\ scorerCalls' = 0 /\ rankCalls' = 0 /\ response' = NoResponse
    \* the scorer: after all directions calls, before the response is built
    /\ scorerCalls' # scorerCalls =>
          /\ stage = "Ranking" /\ routeIdx = maxRoutes /\ Len(dirLog) = maxRoutes
          /\ response' = NoResponse
    \* the response is built last
    /\ response' # response => stage = "Building" /\ stage' = "Done"
    \* no retries
    /\ NoRepeat([k \in 1..Len(searchLog') |-> searchLog'[k].category])
    /\ NoRepeat([k \in 1..Len(dirLog') |-> dirLog'[k].attempt])
    \* no candidates: directly to Building with an empty list, Ranking skipped
    /\ stage' = "Ranking" => candidates' # <<>>
    /\ (stage' = "Building" /\ candidates' = <<>>) =>
          stage # "Ranking" /\ ranked' = <<>> /\ rankCalls' = 0 /\ scorerCalls' = 0
    /\ (stage = "Sampling" /\ stage' = "Building") => pool = <<>> /\ dirLog' = <<>>

C9_EmptyResult ==
    candidates = <<>> =>
        /\ stage # "Failed"
        /\ stage = "Done" =>
              /\ response[1].success = TRUE
              /\ response[1].routes = <<>>
              /\ response[1].total_count = 0

C9_Witness ==
    /\ stage = "Done" /\ candidates = <<>>
    /\ pool # <<>> /\ Len(dirLog) = maxRoutes
    /\ response[1].success = TRUE /\ response[1].total_count = 0

RouteIds(routes) == [k \in 1..Len(routes) |-> routes[k].id]

ScorerRaised ==
    scorerCalls > 0 /\ candidates # <<>> /\ candidates[1].score = NoScore

C11_Step ==
    /\ ScorerRaised' => (stage' = "Failed" /\ response' = NoResponse)
    /\ stage # "Failed"

\* C11: when the scorer raises, generate_routes ends with the exception: the
\* run is Failed, no response is ever built and nothing follows the failure.
C11_ScorerFailurePropagates == [][C11_Step]_vars

C11_Witness ==
    /\ stage = "Failed" /\ scorerCalls = 1
    /\ Len(candidates) >= 2
    /\ \A n \in 1..Len(candidates) : candidates[n].score = NoScore
    /\ response = NoResponse

\* route.get("score", 0.0) of the dict behind a reference
RankKey(r) == ScoreKey(rkHeap[r])

C13_MultisetPreserved ==
    rpc = "returned" =>
        /\ IsPermutation(rkRoutes, rkResult)
        /\ \A r \in Refs : rkHeap[r].id = UnscoredRoute(r).id

C13_Witness ==
    /\ rpc = "returned"
    /\ rkRoutes = <<1, 2, 3>>
    /\ rkScores = <<4, 9, 9>>
    /\ rkResult = <<2, 3, 1>>

\* C14: for an empty list rank_routes returns [] without calling the model;
\* for a non-empty list it calls the model once, with the whole list.
C14_ScorerCalls ==
    rpc \in {"returned", "raised"} =>
        IF rkRoutes = <<>>
        THEN rkCalls = <<>> /\ rpc = "returned" /\ rkResult = <<>>
        ELSE rkCalls = <<rkRoutes>>

C14_Witness ==
    /\ rpc = "returned"
    /\ Len(rkRoutes) = MaxRankLen
    /\ rkCalls = <<rkRoutes>>
    /\ Len(rkResult) = MaxRankLen

\* C15: a route whose score is not finite is ranked after every route whose
\* score is finite.
C15_NonFiniteLast ==
    rpc = "returned" =>
        \A a, b \in 1..Len(rkResult) :
            (~IsFinite(RankKey(rkResult[a])) /\ IsFinite(RankKey(rkResult[b]))) => b < a

\* the places of a category as the pool holds them
Tagged(category) ==
    [k \in 1..Len(catalog[category]) |->
        [search_category |-> category] @@ Place(catalog[category][k])]

\* the results of the queries k, k+1, ... that succeeded, in query order
RECURSIVE PoolFrom(_, _)
PoolFrom(ok, k) ==
    IF k > Len(searchLog) THEN <<>>
    ELSE (IF ok[k] THEN Tagged(searchLog[k].category) ELSE <<>>) \o PoolFrom(ok, k + 1)

\* C16: the queries issued so far are one per category, in the order park,
\* nature, attraction, restaurant, each with half the requested radius; all
\* four have been issued when sampling is over, whichever of them raised; the
\* pool is the concatenation of the tagged results of the queries that
\* succeeded.
C16_CategoryQueries ==
    /\ stage = "Sampling" => Len(searchLog) = catIdx
    /\ stage \notin {"idle", "Sampling"} => Len(searchLog) = Len(TargetCategories)
    /\ \A k \in 1..Len(searchLog) :
         /\ searchLog[k].category = TargetCategories[k]
         /\ 2 * searchLog[k].radius_km = criteria.radius_km
    /\ \E ok \in [1..Len(searchLog) -> BOOLEAN] : pool = PoolFrom(ok, 1)
    /\ \A k \in 1..Len(pool) :
         \E n \in 1..Len(catalog[pool[k].search_category]) :
            catalog[pool[k].search_category][n] = pool[k].place_id

\* the park query raised, the attraction and restaurant queries after it
\* succeeded
C16_Witness ==
    /\ stage = "Assembling"
    /\ catalog["park"] = <<1>>
    /\ Len(searchLog) = 4
    /\ criteria.radius_km = 4 /\ searchLog[4].radius_km = 2
    /\ Len(pool) = 2
    /\ pool[1].place_id = 1 /\ pool[1].search_category = "attraction"
    /\ pool[2].place_id = 4 /\ pool[2].search_category = "restaurant"

C17_Step ==
    \* an attempt: one directions request, at most one more candidate, and
    \* the loop goes on
    /\ dirLog' # dirLog =>
          /\ stage = "Assembling" /\ stage' = "Assembling"
          /\ routeIdx < maxRoutes /\ routeIdx' = routeIdx + 1
          /\ Len(dirLog') = routeIdx'
          /\ SubSeq(dirLog', 1, Len(dirLog)) = dirLog
          /\ dirLog'[routeIdx'].attempt = routeIdx'
          /\ \/ candidates' = candidates
             \/ /\ Len(candidates') = Len(candidates) + 1
                /\ SubSeq(candidates', 1, Len(candidates)) = candidates
                /\ candidates'[Len(candidates')].id = <<"route", routeIdx'>>
    \* a non-empty pool is followed by the attempts
    /\ (stage = "Sampling" /\ stage' # "Sampling") =>
          (pool # <<>> <=> stage' = "Assembling")
    \* the loop ends after max_routes attempts
    /\ (stage = "Assembling" /\ stage' # "Assembling") =>
          /\ Len(dirLog) = maxRoutes
          /\ Len(candidates) <= maxRoutes
          /\ candidates' = candidates /\ dirLog' = dirLog
    /\ stage # "Assembling" => dirLog' = dirLog

\* C17: with a non-empty pool exactly max_routes attempts are made, each
\* with one directions request; an attempt adds one candidate or none, keeps
\* the earlier candidates and never ends the loop, so at most max_routes
\* candidates result.
C17_AttemptCount == [][C17_Step]_vars

C17_Witness ==
    /\ stage = "Ranking"
    /\ Len(dirLog) = maxRoutes /\ maxRoutes >= 2
    /\ Len(candidates) = 1
    /\ candidates[1].id = <<"route", maxRoutes>>

\* C18: every route of the result has at least one waypoint, its waypoints
\* are, in order, the intermediates of the directions request of its attempt,
\* and its distance, duration, polyline and viewport are the reply to that
\* request; in every candidate count = len(places) = len(place_ids).
C18_RouteFromItsAttempt ==
    /\ \A n \in 1..Len(candidates) :
         LET c == candidates[n]
             a == c.id[2]
         IN  /\ a \in 1..Len(dirLog)
             /\ c.waypoints.count = Len(c.waypoints.places)
             /\ c.waypoints.count = Len(c.waypoints.place_ids)
             /\ c.waypoints.place_ids = dirLog[a].waypoints
             /\ PlaceIdsOf(c.waypoints.places) = dirLog[a].waypoints
             /\ c.route_info = DirectionsReply(dirLog[a].attempt)
    /\ stage = "Done" =>
         \A k \in 1..Len(response[1].routes) :
            LET r == response[1].routes[k]
                a == r.id[2]
            IN  /\ a \in 1..Len(dirLog)
                /\ r.waypoints # <<>>
                /\ PlaceIdsOf(r.waypoints) = dirLog[a].waypoints
                /\ r.distance = DirectionsReply(dirLog[a].attempt).distance
                /\ r.duration = DirectionsReply(dirLog[a].attempt).duration
                /\ r.geometry.overview_polyline =
                       DirectionsReply(dirLog[a].attempt).overview_polyline
                /\ r.geometry.viewport = DirectionsReply(dirLog[a].attempt).viewport

\* two routes with different waypoints, the better-scored one from attempt 2
C18_Witness ==
    /\ stage = "Done"
    /\ Len(response[1].routes) = 2
    /\ response[1].routes[1].id = <<"route", 2>>
    /\ response[1].routes[1].distance = 200
    /\ Len(response[1].routes[1].waypoints) = 3
    /\ response[1].routes[2].distance = 100
    /\ dirLog[1].waypoints # dirLog[2].waypoints

\* the waypoint counts of the requests, candidates and result routes
WaypointCounts ==
    {Len(dirLog[k].waypoints) : k \in 1..Len(dirLog)}
    \cup {candidates[n].waypoints.count : n \in 1..Len(candidates)}
    \cup (IF stage = "Done"
          THEN {Len(response[1].routes[k].waypoints) : k \in 1..Len(response[1].routes)}
          ELSE {})

\* C19 as stated: every waypoint set, candidate and result route has 2 or 3
\* waypoints.
C19_TwoOrThree == WaypointCounts \subseteq MinWaypoints..MaxWaypoints

\* C19, amended: every waypoint set, candidate and result route has between
\* min(2, size of the pool) and min(3, size of the pool) waypoints: 2 or 3
\* when the pool holds at least 3 places, 2 when it holds 2, 1 when it holds
\* a single place.
C19_WaypointCount ==
    /\ WaypointCounts \subseteq
          Min(MinWaypoints, Len(pool))..Min(MaxWaypoints, Len(pool))
    /\ \A n \in 1..Len(candidates) :
         candidates[n].waypoints.count = Len(candidates[n].waypoints.places)

C19_Witness ==
    /\ stage = "Done"
    /\ Len(pool) = 3
    /\ Len(response[1].routes) = 2
    /\ Len(response[1].routes[1].waypoints) = 3
    /\ Len(response[1].routes[2].waypoints) = 2

\* C20: every count drawn is 2 or 3, a selection exists for either count
\* whatever the size of the pool, and the attempt uses min(count drawn, size
\* of the pool) waypoints.
C20_MinOfDrawAndPool ==
    stage = "Assembling" =>
        /\ \A k \in MinWaypoints..MaxWaypoints : SelectWaypoints(pool, k) # {}
        /\ routeIdx > 0 =>
              /\ numWaypoints \in {2, 3}
              /\ Len(dirLog[routeIdx].waypoints) = Min(numWaypoints, Len(pool))

\* 3 drawn from a pool of 2: both places are used
C20_Witness ==
    /\ stage = "Assembling" /\ routeIdx > 0
    /\ numWaypoints = 3
    /\ Len(pool) = 2
    /\ Len(dirLog[routeIdx].waypoints) = 2

\* the test of line 31 on the edges (i, i+1) and (j, j+1) of s
EdgesIntersect(s, i, j) ==
    SegmentsIntersect(At(s, i), At(s, i + 1), At(s, j), At(s, j + 1))

\* C26: a reversal is applied to the first intersecting edge pair (i, j) of a
\* scan that starts at i = 0 (no pair with a smaller i, or the same i and a
\* smaller j >= i + 2, intersects), and it reverses the positions i+1..j and
\* nothing else.
C26_FirstPairReversed ==
    (opc \in {"loop", "returned"} /\ swaps # NoSwap) =>
        LET i == swaps[1]
            j == swaps[2]
            before == swaps[3]
        IN  /\ 0 <= i /\ i + 2 <= j /\ j <= Len(before) - 2
            /\ EdgesIntersect(before, i, j)
            /\ \A a \in 0..i : \A b \in (a + 2)..(Len(before) - 2) :
                 (a < i \/ b < j) => ~EdgesIntersect(before, a, b)
            /\ Len(optimized) = Len(before)
            /\ \A k \in 0..(Len(before) - 1) :
                 At(optimized, k) =
                    IF i + 1 <= k /\ k <= j THEN At(before, i + 1 + j - k)
                    ELSE At(before, k)

\* the reversal at (0, 2) of a sequence whose pair (1, 3) intersects as well
C26_Witness ==
    /\ opc = "loop" /\ swaps # NoSwap
    /\ swaps[1] = 0 /\ swaps[2] = 2
    /\ swaps[3] = <<<<0, 0>>, <<1, 1>>, <<1, 0>>, <<0, 1>>, <<1, 0>>>>
    /\ EdgesIntersect(swaps[3], 1, 3)
    /\ optimized = <<<<0, 0>>, <<1, 0>>, <<1, 1>>, <<0, 1>>, <<1, 0>>>>

\* C30: in the loop, after every reversal, and on return the first and the
\* last waypoint are those of the input.
C30_EndpointsFixed ==
    /\ (opc = "loop" /\ Len(waypoints) >= 1) =>
          /\ optimized[1] = waypoints[1]
          /\ optimized[Len(optimized)] = waypoints[Len(waypoints)]
    /\ (opc = "returned" /\ Len(waypoints) >= 1) =>
          /\ Len(result) = Len(waypoints)
          /\ result[1] = waypoints[1]
          /\ result[Len(result)] = waypoints[Len(waypoints)]

C30_Witness ==
    /\ opc = "returned" /\ ncall = 1
    /\ swaps # NoSwap
    /\ result # waypoints
    /\ result[1] = waypoints[1]
    /\ result[Len(result)] = waypoints[Len(waypoints)]
    /\ waypoints[1] # waypoints[Len(waypoints)]

\* the bearings of a list of places, in list order
Bearings(places) == [k \in 1..Len(places) |-> Bearing(places[k].location)]

Ascending(s) == \A a, b \in 1..Len(s) : a < b => s[a] <= s[b]

\* C25: the places of every candidate are in ascending order of bearing, the
\* bearings lie in [0, 360), the place ids sent to the directions provider
\* are those of the places in that order, and there are fewer than 4 of
\* them, so that the crossing optimizer returns them as they are.
C25_BearingOrder ==
    \A n \in 1..Len(candidates) :
        LET places == candidates[n].waypoints.places
            a == candidates[n].id[2]
        IN  /\ Ascending(Bearings(places))
            /\ \A k \in 1..Len(places) :
                 0 <= Bearings(places)[k] /\ Bearings(places)[k] < 360
            /\ Len(places) < 4
            /\ dirLog[a].waypoints = PlaceIdsOf(places)
            /\ candidates[n].waypoints.place_ids = PlaceIdsOf(places)

\* places 4 (west), 2 (east) and 1 (north) were drawn from the pool in pool
\* order 1, 2, 4 or any other; the candidate lists them as 1, 2, 4
C25_Witness ==
    /\ Len(candidates) >= 1
    /\ Len(pool) = 4
    /\ candidates[1].waypoints.place_ids = <<1, 2, 4>>
    /\ Bearings(candidates[1].waypoints.places) = <<0, 90, 270>>

\* C27: no place id occurs twice among the waypoints of a directions request
\* or of a candidate.
C27_DistinctPlaces ==
    /\ \A k \in 1..Len(dirLog) : NoRepeat(dirLog[k].waypoints)
    /\ \A n \in 1..Len(candidates) : NoRepeat(candidates[n].waypoints.place_ids)

C29_Step ==
    \* the candidate of the attempt with route_idx k - 1 has id route_k
    /\ Len(candidates') > Len(candidates) =>
          /\ Len(candidates') = Len(candidates) + 1
          /\ candidates'[Len(candidates')].id = <<"route", routeIdx + 1>>
          /\ routeIdx' = routeIdx + 1
    /\ NoRepeat(RouteIds(candidates'))
    /\ RouteIds(candidates') = RouteIds(candidates)
          \/ Len(candidates') > Len(candidates)
    /\ stage' = "Done" =>
          /\ NoRepeat(RouteIds(response'[1].routes))
          /\ \A k \in 1..Len(response'[1].routes) :
               \E n \in 1..Len(candidates') :
                  candidates'[n].id = response'[1].routes[k].id

\* C29: the ids of the candidates are pairwise distinct, the candidate of
\* the k-th attempt has id route_k whatever happened to the earlier attempts,
\* no later stage changes an id, and the routes of the result carry pairwise
\* distinct ids of candidates.
C29_DistinctIds == [][C29_Step]_vars

\* attempts 1 and 3 failed
C29_Witness ==
    /\ stage = "Done"
    /\ RouteIds(candidates) = <<<<"route", 2>>, <<"route", 4>>, <<"route", 5>>>>
    /\ Len(response[1].routes) = 3
    /\ NoRepeat(RouteIds(response[1].routes))

\* the last position at which the list passed to rank_routes holds reference r
LastPosition(r) ==
    CHOOSE k \in 1..Len(rkRoutes) :
        rkRoutes[k] = r /\ \A j \in (k + 1)..Len(rkRoutes) : rkRoutes[j] # r

NamesAreStrings(c) ==
    \A k \in 1..Len(c.waypoints.places) : c.waypoints.places[k].name # None

\* the 1-based input position of the k-th candidate whose names are strings
InputPosition(k) ==
    CHOOSE p \in 1..Len(bInput) :
        /\ NamesAreStrings(bInput[p])
        /\ Cardinality({q \in 1..p : NamesAreStrings(bInput[q])}) = k

\* C21: build_response returns for every input list: success is true,
\* total_count is the number of routes, at most the input length; the routes
\* are the views of the candidates whose mapping does not raise, in input
\* order, and the candidates whose mapping raises are left out.
C21_SkipsMalformed ==
    bpc = "returned" =>
        LET resp == bResponse[1]
            good == SelectSeq(bInput, NamesAreStrings)
        IN  /\ bResponse # NoResponse
            /\ resp.success = TRUE
            /\ resp.total_count = Len(resp.routes)
            /\ resp.total_count <= Len(bInput)
            /\ Len(resp.routes) = Len(good)
            /\ \A k \in 1..Len(good) :
                 /\ resp.routes[k].id = good[k].id
                 /\ resp.routes[k].waypoints = good[k].waypoints.places
                 /\ resp.routes[k].distance = good[k].route_info.distance
                 /\ resp.routes[k].metadata = good[k].metadata

\* a malformed candidate between two well-formed ones
C21_Witness ==
    /\ bpc = "returned"
    /\ Len(bInput) = 3
    /\ NamesAreStrings(bInput[1]) /\ ~NamesAreStrings(bInput[2]) /\ NamesAreStrings(bInput[3])
    /\ bInput[1].id = <<"route", 3>> /\ bInput[3].id = <<"route", 2>>
    /\ bResponse[1].success = TRUE
    /\ bResponse[1].total_count = 2
    /\ bResponse[1].routes[1].id = <<"route", 3>>
    /\ bResponse[1].routes[2].id = <<"route", 2>>

\* C23: the name of a route follows from the number n of its waypoints:
\* 'Via A, B +K more' with K = n - 2 for n > 2, 'Via A & B' for n = 2, and
\* 'Route N' for n = 0 with N the 1-based position of the candidate in the
\* input list, A and B being the names of the first two waypoints.
C23_RouteNames ==
    bpc = "returned" =>
        \A k \in 1..Len(bResponse[1].routes) :
            LET c == bInput[InputPosition(k)]
                n == Len(c.waypoints.places)
                name == bResponse[1].routes[k].name
            IN  /\ n > 2 => name = <<"Via ", c.waypoints.places[1].name, ", ",
                                     c.waypoints.places[2].name, " +", n - 2, " more">>
                /\ n = 2 => name = <<"Via ", c.waypoints.places[1].name, " & ",
                                     c.waypoints.places[2].name>>
                /\ n = 0 => name = <<"Route ", InputPosition(k)>>

\* a skipped candidate, then one without waypoints, then two and three waypoints
C23_Witness ==
    /\ bpc = "returned"
    /\ Len(bInput) = 3
    /\ ~NamesAreStrings(bInput[1])
    /\ bInput[2].waypoints.count = 0
    /\ bInput[3].waypoints.count = 3
    /\ Len(bResponse[1].routes) = 2
    /\ bResponse[1].routes[1].name = <<"Route ", 2>>
    /\ bResponse[1].routes[2].name = <<"Via ", "A", ", ", "B", " +", 1, " more">>

\* parse has left _dispatch
Dispatched == ppc \in {"validate", "returned", "raised"}

\* C24: a query of at most threshold words is sent to the basic client
\* exactly once; when that call returns, the LLM client is never called and
\* the basic payload is the one validated; when it raises RuntimeError the
\* LLM client is called exactly once and its payload is the one validated; a
\* query of more words goes to the LLM client and the basic client is never
\* called.
C24_Dispatch ==
    LET short == CountWords(pText) <= BasicModelWordThreshold(pThreshold)
    IN  /\ Len(basicCalls) <= 1 /\ Len(llmCalls) <= 1 /\ Len(pValidated) <= 1
        /\ (ppc \in {"llm", "validate", "returned", "raised"} /\ short) =>
              /\ Len(basicCalls) = 1
              /\ basicCalls[1].text = pText
              /\ basicCalls[1].outcome = "returned" =>
                    /\ llmCalls = <<>>
                    /\ pRaw = <<Payload("basic", pText)>>
                    /\ ppc \in {"returned", "raised"} => pValidated = pRaw
              /\ (basicCalls[1].outcome = "RuntimeError" /\ Dispatched) =>
                    /\ llmCalls = <<pText>>
                    /\ ppc # "validate" /\ pRaw # <<>> =>
                          pValidated = <<Payload("llm", pText)>>
        /\ (ppc \in {"llm", "validate", "returned", "raised"} /\ ~short) =>
              /\ basicCalls = <<>>
              /\ Dispatched => llmCalls = <<pText>>

\* a query of exactly threshold words whose basic call raised RuntimeError
C24_Witness ==
    /\ ppc = "returned"
    /\ pQuery = <<" ", "a", " ", "a">>
    /\ pText = <<"a", " ", "a">>
    /\ pThreshold = 2
    /\ basicCalls = <<[text |-> pText, outcome |-> "RuntimeError"]>>
    /\ llmCalls = <<pText>>
    /\ pValidated = <<Payload("llm", pText)>>

\* C28: the calls the API counter has recorded for the day never exceed
\* max_api_calls_per_day, whatever find_nearby_places and get_directions
\* calls are made and however they interleave.
C28_WithinDailyLimit == callCount <= MaxCallsPerDay

=============================================================================
